---- MODULE Spec2Model ----
(***************************************************************************)
(* A model of the automated social media poster (src/src/main.py and the   *)
(* publishers under src/src/social/).  One invocation of main loads the    *)
(* posts of a category and the persisted cursors, processes facebook and   *)
(* then twitter, and writes the cursors back.                              *)
(*                                                                         *)
(* Python values are modelled as follows.  A dict is a TLA+ function whose *)
(* DOMAIN is the dict's key set, so "key in d" is  key \in DOMAIN d.  A    *)
(* list is a sequence; Python's 0-based posts[i] is posts[i + 1] here.     *)
(* None is the record None below, or a flag of the returned record where   *)
(* the other outcomes are strings or numbers.  A call that can raise       *)
(* returns a record whose field exc names the exception ("none" when it    *)
(* returns normally).                                                      *)
(***************************************************************************)
EXTENDS Integers, Sequences, FiniteSets, TLC

VARIABLES
    posts,       \* content/posts/<type>/posts.yaml, as ContentLoader.load_posts reads it
    images,      \* the files of content/images/<type>/ that match <type>_*.png|jpg
    file,        \* the state file of the category (get_state_file)
    pc,          \* per invocation of main: where it stands
    state,       \* per invocation: the dict load_state returned, mutated in place
    loaded,      \* per invocation: the value of state right after load_state
    outcome,     \* per invocation and platform: how process_platform_posts ended
    sel,         \* per invocation and platform: position of the post get_next_post returned
    writes,      \* per invocation: number of times it wrote the state file
    overlapped,  \* per invocation: it loaded the state while another had loaded and not saved
    hist,        \* per platform: the positions selected by the successive invocations
    probe        \* a single call of a pure function: its inputs and its result

vars == <<posts, images, file, pc, state, loaded, outcome, sel, writes,
          overlapped, hist, probe>>

\* ------------------------------------------------------------------ bounds
MaxPosts  == 3   \* longest post list
MaxImages == 3   \* largest ordinal of an image file name
MaxFiles  == 2   \* most files in the image directory of a run
MaxIndex  == 2   \* largest integer written in a hand-made state file
MaxHist   == 4   \* number of selections remembered per platform

\* ------------------------------------------------------------- vocabulary
Platforms == {"facebook", "twitter"}
PlatformOrder == <<"facebook", "twitter">>

None == [none |-> TRUE]

\* The posts a content file is made of.  Every post lists its platforms; the
\* other keys are optional in the code (format_post tests for them).
PostPool ==
    { [text |-> "a", platforms |-> {"facebook"}],
      [text |-> "b", platforms |-> {"twitter"}],
      [text |-> "c", platforms |-> {"facebook", "twitter"},
       facebook_footer |-> "f", hashtags |-> <<"x", "y">>],
      [platforms |-> {"facebook", "twitter"}] }

RECURSIVE SeqsUpTo(_, _)
SeqsUpTo(S, n) ==
    IF n = 0 THEN {<<>>}
    ELSE LET shorter == SeqsUpTo(S, n - 1)
         IN  shorter \cup {Append(s, x) : s \in {t \in shorter : Len(t) = n - 1}, x \in S}

PostLists == SeqsUpTo(PostPool, MaxPosts)

\* A file of the image directory: its stem ends in _<num>, or in something
\* int() rejects.
ImagePool ==
    {[num |-> n, numeric |-> TRUE] : n \in 1..MaxImages}
        \cup {[num |-> 0, numeric |-> FALSE]}
NoImage == [num |-> 0, numeric |-> FALSE, none |-> TRUE]

\* ------------------------------------------------------- main.py: selector
\* One for-loop of get_next_post: i runs over range(i, stop); posts[i] raises
\* IndexError once i >= len(posts).
RECURSIVE Scan(_, _, _, _)
Scan(ps, platform, i, stop) ==
    IF i >= stop THEN [kind |-> "exhausted", i |-> 0]
    ELSE IF i >= Len(ps) THEN [kind |-> "IndexError", i |-> i]
    ELSE IF platform \in ps[i + 1].platforms THEN [kind |-> "found", i |-> i]
    ELSE Scan(ps, platform, i + 1, stop)

\* A faulty get_next_post: the first loop returns last_index + 1, a fixed
\* increment, instead of the matched position + 1.
get_next_post_offby(ps, platform, last_index) ==
    LET first == Scan(ps, platform, last_index, Len(ps))
        again == Scan(ps, platform, 0, last_index)
    IN  IF first.kind = "found"
        THEN [exc |-> "none", post |-> ps[first.i + 1], next_index |-> last_index + 1]
        ELSE IF again.kind = "IndexError"
        THEN [exc |-> "IndexError", post |-> None, next_index |-> 0]
        ELSE IF again.kind = "found"
        THEN [exc |-> "none", post |-> ps[again.i + 1], next_index |-> again.i + 1]
        ELSE [exc |-> "none", post |-> None, next_index |-> 0]

\* get_next_post: scan from last_index to the end, then from 0 up to
\* last_index; the two loops are evaluated in that order.
get_next_post(ps, platform, last_index) ==
    LET first == Scan(ps, platform, last_index, Len(ps))
        again == Scan(ps, platform, 0, last_index)
    IN  IF first.kind = "found"
        THEN [exc |-> "none", post |-> ps[first.i + 1], next_index |-> first.i + 1]
        ELSE IF again.kind = "IndexError"
        THEN [exc |-> "IndexError", post |-> None, next_index |-> 0]
        ELSE IF again.kind = "found"
        THEN [exc |-> "none", post |-> ps[again.i + 1], next_index |-> again.i + 1]
        ELSE [exc |-> "none", post |-> None, next_index |-> 0]

\* get_next_post_data: "if not post" turns no post into None.
get_next_post_data(ps, platform, current_index) ==
    LET r == get_next_post(ps, platform, current_index)
    IN  IF r.exc # "none" THEN [exc |-> r.exc, none |-> TRUE, post |-> None, next_index |-> 0]
        ELSE IF r.post = None THEN [exc |-> "none", none |-> TRUE, post |-> None, next_index |-> 0]
        ELSE [exc |-> "none", none |-> FALSE, post |-> r.post, next_index |-> r.next_index]

\* ------------------------------------------------------ main.py: formatting
RECURSIVE JoinTags(_)
JoinTags(tags) ==
    IF tags = <<>> THEN ""
    ELSE IF Len(tags) = 1 THEN "#" \o tags[1]
    ELSE "#" \o tags[1] \o " " \o JoinTags(Tail(tags))

\* format_post: the KeyError of post["text"] is caught and None returned.
format_post(post, platform) ==
    IF "text" \notin DOMAIN post THEN [none |-> TRUE, text |-> ""]
    ELSE LET t0 == post.text
             t1 == IF platform = "facebook" /\ "facebook_footer" \in DOMAIN post
                   THEN t0 \o "\n\n" \o post.facebook_footer ELSE t0
             t2 == IF "hashtags" \in DOMAIN post
                   THEN t1 \o "\n\n" \o JoinTags(post.hashtags) ELSE t1
         IN  [none |-> FALSE, text |-> t2]

\* Python's truth value of what format_post returned.
Truthy(fmt) == ~fmt.none /\ fmt.text # ""

\* --------------------------------------------------- main.py: image choice
RECURSIVE SortByNum(_)
SortByNum(S) ==
    IF S = {} THEN <<>>
    ELSE LET least == CHOOSE f \in S : \A g \in S : f.num <= g.num
         IN  <<least>> \o SortByNum(S \ {least})

\* _get_sorted_image_paths: the files whose suffix int() accepts, by number.
get_sorted_image_paths(dir) == SortByNum({f \in dir : f.numeric})

\* A faulty prepare_post_content: the next index is not reduced modulo total.
prepare_post_content_nomod(post, platform, current_image_index, dir) ==
    LET fmt    == format_post(post, platform)
        sorted == get_sorted_image_paths(dir)
        total  == Len(sorted)
    IN  IF ~Truthy(fmt)
        THEN [text |-> fmt, image |-> NoImage, next_idx |-> 0, none |-> TRUE]
        ELSE IF total = 0
        THEN [text |-> fmt, image |-> NoImage, next_idx |-> 0, none |-> FALSE]
        ELSE [text |-> fmt, image |-> sorted[(current_image_index % total) + 1],
              next_idx |-> current_image_index + 1, none |-> FALSE]

\* prepare_post_content returns (text, path, next index); none marks the
\* (None, None, None) it returns when formatting gave nothing.
prepare_post_content(post, platform, current_image_index, dir) ==
    LET fmt    == format_post(post, platform)
        sorted == get_sorted_image_paths(dir)
        total  == Len(sorted)
    IN  IF ~Truthy(fmt)
        THEN [text |-> fmt, image |-> NoImage, next_idx |-> 0, none |-> TRUE]
        ELSE IF total = 0
        THEN [text |-> fmt, image |-> NoImage, next_idx |-> 0, none |-> FALSE]
        ELSE [text |-> fmt, image |-> sorted[(current_image_index % total) + 1],
              next_idx |-> (current_image_index + 1) % total, none |-> FALSE]

\* ------------------------------------------------ the state file as YAML
\* The text of a state file is a sequence of lines.  A line at indentation 0
\* is "key: value", "key:" opening a block, "- item", or a bare scalar; a line
\* at indentation 1 is "  key: value" inside the block above it.
Line(ind, key, tag, val) == [ind |-> ind, key |-> key, tag |-> tag, val |-> val]

\* What yaml.safe_load returns, tagged with its Python type: v is the value
\* of an int and the length of a str or list, m the items of a dict.
EmptyMap == [k \in {} |-> 0]
PyNull     == [t |-> "null", v |-> 0, m |-> EmptyMap]
PyInt(n)   == [t |-> "int",  v |-> n, m |-> EmptyMap]
PyStr(n)   == [t |-> "str",  v |-> n, m |-> EmptyMap]
PyList(n)  == [t |-> "list", v |-> n, m |-> EmptyMap]
PyMap(m)   == [t |-> "map",  v |-> 0, m |-> m]

ScalarOf(line) ==
    CASE line.tag = "int"  -> PyInt(line.val)
      [] line.tag = "str"  -> PyStr(line.val)
      [] line.tag = "emptymap" -> PyMap(EmptyMap)
      [] OTHER -> PyNull

\* The indented lines that follow line i, up to the next line at indentation 0.
RECURSIVE BlockAfter(_, _)
BlockAfter(lines, i) ==
    IF i + 1 > Len(lines) \/ lines[i + 1].ind = 0 THEN <<>>
    ELSE <<lines[i + 1]>> \o BlockAfter(lines, i + 1)

BlockValue(block) ==
    IF block = <<>> THEN PyNull
    ELSE PyMap([k \in {block[j].key : j \in 1..Len(block)} |->
                  ScalarOf(block[CHOOSE j \in 1..Len(block) : block[j].key = k])])

\* yaml.safe_load of a text that parses.
YamlLoad(lines) ==
    IF lines = <<>> THEN PyNull
    ELSE IF lines[1].tag = "scalar_int" THEN PyInt(lines[1].val)
    ELSE IF lines[1].tag = "scalar_str" THEN PyStr(lines[1].val)
    ELSE IF lines[1].tag = "item" THEN PyList(Len(lines))
    ELSE LET tops == {i \in 1..Len(lines) : lines[i].ind = 0}
         IN  PyMap([k \in {lines[i].key : i \in tops} |->
                      LET i == CHOOSE j \in tops : lines[j].key = k
                      IN  IF lines[i].tag = "map" THEN BlockValue(BlockAfter(lines, i))
                          ELSE ScalarOf(lines[i])])

SubKeyOrder == <<"image_index", "post_index">>

RECURSIVE DumpKeys(_, _, _)
DumpKeys(d, order, ind) ==
    IF order = <<>> THEN <<>>
    ELSE IF Head(order) \in DOMAIN d
    THEN <<Line(ind, Head(order), "int", d[Head(order)])>> \o DumpKeys(d, Tail(order), ind)
    ELSE DumpKeys(d, Tail(order), ind)

RECURSIVE YamlDumpFrom(_, _)
YamlDumpFrom(st, order) ==
    IF order = <<>> THEN <<>>
    ELSE IF Head(order) \in DOMAIN st
    THEN <<Line(0, Head(order), "map", 0)>> \o DumpKeys(st[Head(order)], SubKeyOrder, 1)
             \o YamlDumpFrom(st, Tail(order))
    ELSE YamlDumpFrom(st, Tail(order))

\* A faulty dump: the two indices written under each other's key.
YamlDump_swapped(st) ==
    YamlDumpFrom([p \in DOMAIN st |->
                    [post_index |-> st[p].image_index, image_index |-> st[p].post_index]],
                 PlatformOrder)

\* yaml.safe_dump of a cursor state: keys sorted, one block per platform.
YamlDump(st) == YamlDumpFrom(st, PlatformOrder)

\* ------------------------------------------------- main.py: the state store
default_cursor == [post_index |-> 0, image_index |-> 0]
default_state  == [p \in Platforms |-> default_cursor]

NoFile      == [kind |-> "missing", lines |-> <<>>]
GarbageFile == [kind |-> "garbage", lines |-> <<>>]
TextFile(lines) == [kind |-> "text", lines |-> lines]

\* "yaml.safe_load(file) or {}": the values Python takes for false.
Falsy(v) ==
    \/ v.t = "null"
    \/ v.t \in {"int", "str", "list"} /\ v.v = 0
    \/ v.t = "map" /\ DOMAIN v.m = {}

\* One turn of the migration loop of load_state, for one platform.
MigrateStep(ls, platform) ==
    IF ls.exc # "none" THEN ls
    ELSE IF ls.val.t = "int" THEN [exc |-> "TypeError", val |-> ls.val]
    ELSE IF ls.val.t # "map" THEN [exc |-> "AttributeError", val |-> ls.val]
    ELSE LET m0 == ls.val.m
             m1 == IF platform \in DOMAIN m0 /\ m0[platform].t = "int"
                   THEN (platform :> PyMap([post_index |-> PyInt(m0[platform].v),
                                            image_index |-> PyInt(0)])) @@ m0
                   ELSE m0
             m2 == IF platform \in DOMAIN m1 THEN m1
                   ELSE (platform :> PyMap([post_index |-> PyInt(0),
                                            image_index |-> PyInt(0)])) @@ m1
             e  == m2[platform]
         IN  IF e.t # "map" THEN [exc |-> "AttributeError", val |-> PyMap(m2)]
             ELSE LET withPost == IF "post_index" \in DOMAIN e.m THEN e.m
                                  ELSE ("post_index" :> PyInt(0)) @@ e.m
                      withBoth == IF "image_index" \in DOMAIN withPost THEN withPost
                                  ELSE ("image_index" :> PyInt(0)) @@ withPost
                  IN  [exc |-> "none", val |-> PyMap((platform :> PyMap(withBoth)) @@ m2)]

\* The plain dict of dicts of ints behind a tagged value.
Untag(v) == [p \in DOMAIN v.m |-> [k \in DOMAIN v.m[p].m |-> v.m[p].m[k].v]]

\* load_state: a missing file, and an OSError or YAMLError, give the default
\* state; any other exception leaves the function.
load_state(f) ==
    IF f.kind # "text" THEN [exc |-> "none", state |-> default_state]
    ELSE LET v  == YamlLoad(f.lines)
             v0 == IF Falsy(v) THEN PyMap(EmptyMap) ELSE v
             r  == MigrateStep(MigrateStep([exc |-> "none", val |-> v0],
                                           PlatformOrder[1]), PlatformOrder[2])
         IN  IF r.exc # "none" THEN [exc |-> r.exc, state |-> default_state]
             ELSE [exc |-> "none", state |-> Untag(r.val)]

\* save_state: the file is overwritten with the dump of the state.
save_state(st) == TextFile(YamlDump(st))

\* ----------------------------------------------------------- publishers
\* What the network does with one request of FacebookHandler.post: open() or
\* requests.post raises (both raise subclasses of OSError), or a response
\* comes back with a status code.
Responses ==
    { [raises |-> FALSE, status_code |-> 200],
      [raises |-> FALSE, status_code |-> 500],
      [raises |-> TRUE,  status_code |-> 0] }

\* SocialFactory.get_handler.  TwitterHandler.__init__ has five required
\* parameters after self and is called with four: the call raises TypeError
\* before the constructor's body runs.
get_handler(platform) ==
    CASE platform = "facebook" -> [exc |-> "none", handler |-> "FacebookHandler"]
      [] platform = "twitter"  -> [exc |-> "TypeError", handler |-> "none"]
      [] OTHER                 -> [exc |-> "ValueError", handler |-> "none"]

\* FacebookHandler.post: prints the result and returns None either way.
FacebookHandler_post(message, image_path, resp) ==
    IF resp.raises THEN [exc |-> "OSError", published |-> FALSE]
    ELSE [exc |-> "none", published |-> (resp.status_code = 200)]

\* post_content: the value handler.post returns is dropped; published is
\* kept here only to tell what the platform did.
post_content(platform, text, image_path, resp) ==
    LET h == get_handler(platform)
    IN  IF h.exc # "none" THEN [exc |-> h.exc, published |-> FALSE]
        ELSE FacebookHandler_post(text, image_path, resp)

\* A faulty update_platform_state: the two arguments assigned crosswise.
update_platform_state_swapped(cursor, post_index, image_index) ==
    [cursor EXCEPT !.post_index = image_index, !.image_index = post_index]

update_platform_state(cursor, post_index, image_index) ==
    [cursor EXCEPT !.post_index = post_index, !.image_index = image_index]

\* The exceptions process_platform_posts catches.
CaughtPerPlatform == {"KeyError", "ValueError", "OSError", "TypeError"}

\* process_platform_posts for one platform: the cursor it leaves, how it
\* ended, the position it selected (-1 for none) and the exception that
\* leaves it ("none" when it returns).
process_platform_posts(platform, ps, cursor, dir, resp) ==
    LET pd == get_next_post_data(ps, platform, cursor.post_index)
        c  == prepare_post_content(pd.post, platform, cursor.image_index, dir)
        pb == post_content(platform, c.text.text, c.image, resp)
        position == pd.next_index - 1
    IN  IF pd.exc # "none"
        THEN [cursor |-> cursor, how |-> pd.exc, sel |-> -1,
              exc |-> IF pd.exc \in CaughtPerPlatform THEN "none" ELSE pd.exc]
        ELSE IF pd.none
        THEN [cursor |-> cursor, how |-> "nopost", sel |-> -1, exc |-> "none"]
        ELSE IF c.none
        THEN [cursor |-> cursor, how |-> "noformat", sel |-> position, exc |-> "none"]
        ELSE IF pb.exc # "none"
        THEN [cursor |-> cursor, how |-> pb.exc, sel |-> position,
              exc |-> IF pb.exc \in CaughtPerPlatform THEN "none" ELSE pb.exc]
        ELSE [cursor |-> update_platform_state(cursor, pd.next_index, c.next_idx),
              how |-> IF pb.published THEN "posted" ELSE "rejected",
              sel |-> position, exc |-> "none"]

\* ------------------------------------------------------------ invocations
Procs == {1, 2}

NoRun == \A p \in Procs : pc[p] = "idle"
Pending == [pl \in Platforms |-> "pending"]
NoSel == [pl \in Platforms |-> -1]
NoProbe == [op |-> "none"]

Fresh(p) ==
    /\ state' = [state EXCEPT ![p] = default_state]
    /\ loaded' = [loaded EXCEPT ![p] = default_state]
    /\ outcome' = [outcome EXCEPT ![p] = Pending]
    /\ sel' = [sel EXCEPT ![p] = NoSel]
    /\ writes' = [writes EXCEPT ![p] = 0]
    /\ overlapped' = [overlapped EXCEPT ![p] = FALSE]

\* main, up to ContentLoader.load_posts: an OSError of open() is caught by
\* main, which then ends without having loaded the state.
Start(p) ==
    /\ pc[p] = "idle"
    /\ \E readable \in BOOLEAN :
          pc' = [pc EXCEPT ![p] = IF readable THEN "load_state" ELSE "finished"]
    /\ UNCHANGED <<posts, images, file, state, loaded, outcome, sel, writes,
                   overlapped, hist, probe>>

\* main: state = load_state(state_file).  What load_state does not catch is
\* not caught by main either.
LoadState(p) ==
    /\ pc[p] = "load_state"
    /\ LET r == load_state(file)
       IN  IF r.exc # "none"
           THEN /\ pc' = [pc EXCEPT ![p] = "crashed"]
                /\ UNCHANGED <<state, loaded, overlapped>>
           ELSE /\ pc' = [pc EXCEPT ![p] = "facebook"]
                /\ state' = [state EXCEPT ![p] = r.state]
                /\ loaded' = [loaded EXCEPT ![p] = r.state]
                /\ overlapped' = [overlapped EXCEPT ![p] =
                       \E q \in Procs \ {p} : pc[q] \in {"facebook", "twitter", "save"}]
    /\ UNCHANGED <<posts, images, file, outcome, sel, writes, hist, probe>>

\* One turn of "for platform in [facebook, twitter]" in main.
Turn(p, resp) ==
    LET platform == pc[p]
        r == process_platform_posts(platform, posts, state[p][platform], images, resp)
    IN  /\ pc[p] \in Platforms
        /\ state' = [state EXCEPT ![p][platform] = r.cursor]
        /\ outcome' = [outcome EXCEPT ![p][platform] = r.how]
        /\ sel' = [sel EXCEPT ![p][platform] = r.sel]
        /\ pc' = [pc EXCEPT ![p] =
                    IF r.exc # "none" THEN "crashed"
                    ELSE IF platform = "facebook" THEN "twitter" ELSE "save"]
        /\ UNCHANGED <<posts, images, file, loaded, writes, overlapped, probe>>

\* The turn, whatever the network answers.
Process(p) ==
    \E resp \in Responses : Turn(p, resp) /\ UNCHANGED hist

\* The turn when the request is answered 200, with the selection it made
\* added to the platform's history.
Answered == [raises |-> FALSE, status_code |-> 200]

AnsweredProcess(p) ==
    /\ Turn(p, Answered)
    /\ hist' = IF sel'[p][pc[p]] >= 0 /\ Len(hist[pc[p]]) < MaxHist
               THEN [hist EXCEPT ![pc[p]] = Append(@, sel'[p][pc[p]])]
               ELSE hist

\* main: save_state(state, state_file).
Save(p) ==
    /\ pc[p] = "save"
    /\ file' = save_state(state[p])
    /\ writes' = [writes EXCEPT ![p] = @ + 1]
    /\ pc' = [pc EXCEPT ![p] = "finished"]
    /\ UNCHANGED <<posts, images, state, loaded, outcome, sel, overlapped, hist, probe>>

\* The process ends: nothing of it is left but the state file.
Exit(p) ==
    /\ pc[p] \in {"finished", "crashed"}
    /\ pc' = [pc EXCEPT ![p] = "idle"]
    /\ Fresh(p)
    /\ UNCHANGED <<posts, images, file, hist, probe>>

\* ------------------------------------------- the content between two runs
NoHist == [pl \in Platforms |-> <<>>]

RemoveAt(s, i) == SubSeq(s, 1, i - 1) \o SubSeq(s, i + 1, Len(s))

AddPost ==
    /\ NoRun /\ Len(posts) < MaxPosts
    /\ \E x \in PostPool : posts' = Append(posts, x)
    /\ UNCHANGED <<images, file, pc, state, loaded, outcome, sel, writes, overlapped,
                   hist, probe>>

RemovePost ==
    /\ NoRun
    /\ \E i \in 1..Len(posts) : posts' = RemoveAt(posts, i)
    /\ UNCHANGED <<images, file, pc, state, loaded, outcome, sel, writes, overlapped,
                   hist, probe>>

AddImage ==
    /\ NoRun /\ Cardinality(images) < MaxFiles
    /\ \E f \in ImagePool \ images : images' = images \cup {f}
    /\ UNCHANGED <<posts, file, pc, state, loaded, outcome, sel, writes, overlapped, hist, probe>>

RemoveImage ==
    /\ NoRun
    /\ \E f \in images : images' = images \ {f}
    /\ UNCHANGED <<posts, file, pc, state, loaded, outcome, sel, writes, overlapped, hist, probe>>

\* ---------------------------------------------------------- specifications
InitRun ==
    /\ file = NoFile
    /\ pc = [p \in Procs |-> "idle"]
    /\ state = [p \in Procs |-> default_state]
    /\ loaded = [p \in Procs |-> default_state]
    /\ outcome = [p \in Procs |-> Pending]
    /\ sel = [p \in Procs |-> NoSel]
    /\ writes = [p \in Procs |-> 0]
    /\ overlapped = [p \in Procs |-> FALSE]
    /\ hist = NoHist

\* One invocation at a time (the scheduled job), the content edited between
\* invocations.
Init ==
    /\ posts \in PostLists
    /\ images \in {d \in SUBSET ImagePool : Cardinality(d) <= MaxFiles}
    /\ InitRun
    /\ probe = NoProbe

Next ==
    \/ Start(1) \/ LoadState(1) \/ Process(1) \/ Save(1) \/ Exit(1)
    \/ AddPost \/ RemovePost \/ AddImage \/ RemoveImage

Spec == Init /\ [][Next]_vars

\* Two invocations of main for one category, started independently (nothing
\* in main or save_state takes a lock), over a content that stays as it is:
\* a full list of posts that have a text, and one image.
InitRace ==
    /\ posts \in {l \in PostLists : Len(l) = MaxPosts /\ \A i \in 1..Len(l) : "text" \in DOMAIN l[i]}
    /\ images = {f \in ImagePool : f.num = 1}
    /\ InitRun
    /\ probe = NoProbe

NextRace ==
    \E p \in Procs : Start(p) \/ LoadState(p) \/ Process(p) \/ Save(p) \/ Exit(p)

SpecRace == InitRace /\ [][NextRace]_vars

\* The scheduled job over a content that stays as it is, every post with a
\* text, every request answered 200.
InitFixed ==
    /\ posts \in SeqsUpTo({x \in PostPool : "text" \in DOMAIN x}, MaxPosts)
    /\ images \in {d \in SUBSET ImagePool : Cardinality(d) <= MaxFiles}
    /\ InitRun
    /\ probe = NoProbe

NextFixed == Start(1) \/ LoadState(1) \/ AnsweredProcess(1) \/ Save(1) \/ Exit(1)

SpecFixed == InitFixed /\ [][NextFixed]_vars

\* ------------------------------------------ single calls of the functions
Quiet == posts = <<>> /\ images = {} /\ InitRun

Apply(out) ==
    /\ ~probe.done
    /\ probe' = [probe EXCEPT !.done = TRUE, !.out = out]
    /\ UNCHANGED <<posts, images, file, pc, state, loaded, outcome, sel, writes,
                   overlapped, hist>>

\* get_next_post on every post list, platform and start index.
InitSelect ==
    /\ Quiet
    /\ probe \in {[op |-> "get_next_post", ps |-> l, platform |-> pl, start |-> s,
                   done |-> FALSE, out |-> [exc |-> "none", post |-> None, next_index |-> 0]] :
                  l \in PostLists, pl \in Platforms, s \in 0..MaxPosts}

CallGetNextPost == Apply(get_next_post(probe.ps, probe.platform, probe.start))

SpecSelect == InitSelect /\ [][CallGetNextPost]_vars

\* prepare_post_content on every post, image directory and image index.
InitImage ==
    /\ Quiet
    /\ probe \in {[op |-> "prepare_post_content", post |-> x, platform |-> pl,
                   current |-> c, dir |-> d, done |-> FALSE,
                   out |-> [text |-> [none |-> TRUE, text |-> ""], image |-> NoImage,
                            next_idx |-> 0, none |-> TRUE]] :
                  x \in PostPool, pl \in Platforms, c \in 0..(MaxImages + MaxIndex),
                  d \in SUBSET ImagePool}

CallPreparePostContent ==
    Apply(prepare_post_content(probe.post, probe.platform, probe.current, probe.dir))

SpecImage == InitImage /\ [][CallPreparePostContent]_vars

\* The state files load_state may find: none, one that is not YAML, and the
\* YAML texts made of a scalar, a list, or one entry or none per platform,
\* the entry being null, a string, an integer (the legacy format) or a block
\* with some of the two indices.
EntryKinds ==
    {[k |-> kind, n |-> 0, keys |-> {}, pi |-> 0, ii |-> 0] : kind \in {"absent", "null", "str"}}
      \cup {[k |-> "int", n |-> n, keys |-> {}, pi |-> 0, ii |-> 0] : n \in 0..MaxIndex}
      \cup {[k |-> "map", n |-> 0, keys |-> ks, pi |-> a, ii |-> b] :
              ks \in SUBSET {"post_index", "image_index"}, a \in 0..MaxIndex, b \in 0..MaxIndex}

EntryLines(platform, e) ==
    CASE e.k = "absent" -> <<>>
      [] e.k = "null"   -> <<Line(0, platform, "null", 0)>>
      [] e.k = "str"    -> <<Line(0, platform, "str", 1)>>
      [] e.k = "int"    -> <<Line(0, platform, "int", e.n)>>
      [] e.k = "map" /\ e.keys = {} -> <<Line(0, platform, "emptymap", 0)>>
      [] OTHER -> <<Line(0, platform, "map", 0)>>
                    \o DumpKeys([k \in e.keys |-> IF k = "post_index" THEN e.pi ELSE e.ii],
                                SubKeyOrder, 1)

StateFiles ==
    {NoFile, GarbageFile,
     TextFile(<<Line(0, "", "scalar_int", 1)>>), TextFile(<<Line(0, "", "scalar_str", 1)>>),
     TextFile(<<Line(0, "", "item", 1)>>)}
      \cup {TextFile(EntryLines("facebook", a) \o EntryLines("twitter", b)) :
              a \in EntryKinds, b \in EntryKinds}

InitLoad ==
    /\ Quiet
    /\ probe \in {[op |-> "load_state", file |-> f, done |-> FALSE,
                   out |-> [exc |-> "none", state |-> default_state]] : f \in StateFiles}

CallLoadState == Apply(load_state(probe.file))

SpecLoad == InitLoad /\ [][CallLoadState]_vars

\* save_state followed by load_state, and load_state, save_state, load_state.
CursorStates ==
    [Platforms -> [post_index : 0..MaxIndex, image_index : 0..MaxIndex]]

InitRoundTrip ==
    /\ Quiet
    /\ probe \in {[op |-> "save_load", st |-> st, file |-> NoFile, done |-> FALSE,
                   out |-> [exc |-> "none", state |-> default_state]] : st \in CursorStates}
             \cup {[op |-> "load_save_load", st |-> load_state(f).state, file |-> f,
                    done |-> FALSE, out |-> [exc |-> "none", state |-> default_state]] :
                   f \in {g \in StateFiles : load_state(g).exc = "none"}}

SaveThenLoad ==
    /\ probe.op = "save_load"
    /\ Apply(load_state(save_state(probe.st)))

LoadSaveLoad ==
    /\ probe.op = "load_save_load"
    /\ Apply(load_state(save_state(load_state(probe.file).state)))

SpecRoundTrip == InitRoundTrip /\ [][SaveThenLoad \/ LoadSaveLoad]_vars

\* ================================================================ claims
\* The positions (0-based) of the posts that list the platform.
Eligible(ps, platform) == {i \in 0..(Len(ps) - 1) : platform \in ps[i + 1].platforms}

Ended(p) == pc[p] \in {"finished", "crashed"}

\* The invocation got its state from load_state: it then went on to facebook.
StateLoaded(p) == pc[p] \in {"facebook", "twitter", "save"} \/ outcome[p].facebook # "pending"

\* C1: for each platform the in-memory cursor is changed if and only if the
\* publish to that platform succeeded: after a successful publish it stands
\* one past the selected post, after anything else (no post, no text, no
\* handler, a raised error, a response other than 200) it has the values it
\* had at load; and processing goes on to the next platform.
C1_CursorChangedIffPublished ==
    \A p \in Procs : \A pl \in Platforms :
        outcome[p][pl] # "pending" =>
            /\ outcome[p][pl] = "posted" => state[p][pl].post_index = sel[p][pl] + 1
            /\ outcome[p][pl] # "posted" => state[p][pl] = loaded[p][pl]
            /\ pl = "facebook" => pc[p] \in {"twitter", "save", "finished"}

\* C2: get_next_post agrees with the reference for every post list and every
\* start index with 0 <= start <= len(posts): the first post that lists the
\* platform in the cyclic order start, ..., len-1, 0, ..., start-1, with next
\* index its position + 1; and (None, 0) when no post lists the platform.
\* For posts [fb], [tw], [fb, tw], platform twitter and start 0 that is
\* posts[1] and next index 2.
C2_SelectMatchesReference ==
    (probe.op = "get_next_post" /\ probe.done /\ probe.start <= Len(probe.ps)) =>
        LET ps == probe.ps
            n  == Len(ps)
            E  == Eligible(ps, probe.platform)
            rank(i) == (i - probe.start + n) % n
            first == CHOOSE i \in E : \A j \in E : rank(i) <= rank(j)
        IN  /\ probe.out.exc = "none"
            /\ IF E = {}
               THEN probe.out.post = None /\ probe.out.next_index = 0
               ELSE probe.out.post = ps[first + 1] /\ probe.out.next_index = first + 1
            /\ (/\ n = 3 /\ probe.platform = "twitter" /\ probe.start = 0
                /\ \A i \in 1..3 : ps[i].platforms =
                       <<{"facebook"}, {"twitter"}, {"facebook", "twitter"}>>[i])
                 => probe.out.post = ps[2] /\ probe.out.next_index = 2

\* A call that wrapped around: the platform's only post lies before start.
C2_WrapWitness ==
    /\ probe.op = "get_next_post" /\ probe.done
    /\ probe.start = 2 /\ Len(probe.ps) = 3
    /\ Eligible(probe.ps, probe.platform) = {0}
    /\ probe.out.next_index = 1

\* C3: over the successive invocations of main for one category with a fixed
\* post list, between two consecutive selections of the same post for a
\* platform every other post eligible for that platform is selected exactly
\* once (so every eligible post comes round again and again).
C3_RoundRobin ==
    \A pl \in Platforms :
        LET h == hist[pl]
        IN  \A i \in 1..Len(h) : \A j \in (i + 1)..Len(h) :
                (h[i] = h[j] /\ \A k \in (i + 1)..(j - 1) : h[k] # h[i]) =>
                    \A y \in Eligible(posts, pl) \ {h[i]} :
                        Cardinality({k \in (i + 1)..(j - 1) : h[k] = y}) = 1

\* C4: whatever the post list and the image set have become since the
\* cursors were saved, every index used to read them is within range: no
\* invocation fails with an out-of-range index.
C4_NoIndexOutOfRange ==
    \A p \in Procs : \A pl \in Platforms : outcome[p][pl] # "IndexError"

\* The state files the claim covers: missing, unparseable, not a mapping, a
\* platform whose value is null, a string or a bare integer.
CorruptOrLegacy(f) ==
    \/ f.kind # "text"
    \/ YamlLoad(f.lines).t # "map"
    \/ \E pl \in Platforms \cap DOMAIN YamlLoad(f.lines).m :
           YamlLoad(f.lines).m[pl].t \in {"null", "str", "int"}

\* C5: load_state never raises, and on a state file that is missing,
\* unparseable, not a platform-to-cursor mapping, or in the legacy format it
\* returns the cursor {post_index: 0, image_index: 0} for both platforms.
C5_LoadNeverRaisesAndDefaults ==
    (probe.op = "load_state" /\ probe.done) =>
        /\ probe.out.exc = "none"
        /\ CorruptOrLegacy(probe.file) => probe.out.state = default_state

\* C6: whatever error occurs while facebook is processed, twitter is still
\* processed in the same invocation: no error leaves process_platform_posts.
C6_TwitterProcessedAfterFacebook ==
    \A p \in Procs :
        (Ended(p) /\ outcome[p].facebook # "pending") =>
            pc[p] = "finished" /\ outcome[p].twitter # "pending"

\* C7: an invocation that loaded the state writes the state file exactly
\* once, after both platforms were processed and never before, and what it
\* wrote holds the cursors as the invocation left them.
C7_SavedOnceAtEnd ==
    \A p \in Procs :
        /\ pc[p] \in {"facebook", "twitter", "save"} => writes[p] = 0
        /\ (Ended(p) /\ StateLoaded(p)) =>
               /\ writes[p] = 1
               /\ load_state(file).state = state[p]

\* The files an image directory holds whose name ends in a number.
Numbered(dir) == {f \in dir : f.numeric}

\* C8: when the text formats, prepare_post_content over N >= 1 images and a
\* current index c >= 0 selects the image at position c mod N of the images
\* in the order of their numbers and returns (c + 1) mod N; over no image it
\* selects none and returns 0.  For three images and index 2 that is the
\* third image and next index 0.
C8_ImageSelection ==
    (probe.op = "prepare_post_content" /\ probe.done
       /\ Truthy(format_post(probe.post, probe.platform))) =>
        LET imgs == Numbered(probe.dir)
            N    == Cardinality(imgs)
        IN  /\ ~probe.out.none
            /\ IF N = 0
               THEN probe.out.image = NoImage /\ probe.out.next_idx = 0
               ELSE /\ probe.out.image \in imgs
                    /\ Cardinality({g \in imgs : g.num < probe.out.image.num})
                           = probe.current % N
                    /\ probe.out.next_idx = (probe.current + 1) % N

\* The example: three images, index 2, the last image and next index 0.
C8_WrapWitness ==
    /\ probe.op = "prepare_post_content" /\ probe.done
    /\ Cardinality(Numbered(probe.dir)) = 3 /\ probe.current = 2
    /\ probe.out.image = [num |-> 3, numeric |-> TRUE]
    /\ probe.out.next_idx = 0

\* C9: save_state followed by load_state returns the cursor state that was
\* saved; and load_state, save_state, load_state returns what the first
\* load_state returned.
C9_RoundTrip ==
    (probe.op \in {"save_load", "load_save_load"} /\ probe.done) =>
        probe.out.exc = "none" /\ probe.out.state = probe.st

\* A state whose four indices are not all equal went through the file and came back.
C9_RoundTripWitness ==
    /\ probe.op = "save_load" /\ probe.done
    /\ probe.st.facebook = [post_index |-> 2, image_index |-> 1]
    /\ probe.st.twitter = [post_index |-> 1, image_index |-> 0]
    /\ probe.out.state = probe.st

\* Both invocations ended after publishing to facebook from the same loaded
\* cursor, p having loaded it while q had loaded and not yet saved.
BothPublished(p, q) ==
    /\ p # q
    /\ pc[p] = "finished" /\ pc[q] = "finished"
    /\ writes[p] = 1 /\ writes[q] = 1
    /\ overlapped[p]
    /\ loaded[p].facebook = loaded[q].facebook
    /\ outcome[p].facebook = "posted" /\ outcome[q].facebook = "posted"

\* C10: two overlapping invocations are not protected against each other:
\* when both load the same cursor before either saves, both publish the same
\* post to facebook and the state file they leave records an advance of one
\* post only, the position after the post published twice.
C10_LostUpdate ==
    \A p \in Procs : \A q \in Procs :
        BothPublished(p, q) =>
            /\ sel[p].facebook = sel[q].facebook
            /\ load_state(file).state.facebook.post_index = sel[p].facebook + 1

\* The interleaving exists, over a list with a second post for facebook that
\* the second invocation would have published had it run after the first.
C10_RaceWitness ==
    \E p \in Procs : \E q \in Procs :
        /\ BothPublished(p, q)
        /\ Cardinality(Eligible(posts, "facebook")) >= 2
        /\ sel[p].facebook = sel[q].facebook
        /\ load_state(file).state.facebook.post_index = sel[p].facebook + 1

====
